---- MODULE Spec2Model ----
(***************************************************************************)
(* ReMap: the Express backend (request pipeline, /health, /api,            *)
(* /api/memories, error middleware, 404 handler, graceful shutdown) and    *)
(* the mobile health monitor (makeRequest, the health screen's             *)
(* runAllHealthChecks).                                                    *)
(***************************************************************************)
EXTENDS Integers, Sequences, FiniteSets, TLC

\* ------------------------------------------------------------------ bounds
MaxReq == 2          \* requests the server receives in one behaviour
MaxSignals == 2      \* shutdown signals delivered in one behaviour
MaxRuns == 3         \* runs of runAllHealthChecks in one behaviour
TickMs == 5000       \* milliseconds that pass in one step of the clock
MaxElapsed == 15000
\* memories the user creates on the map screen
MaxCreates == 3  \* the clock stops once this much time has passed

\* HealthMonitorClient's constructor: timeout: number = 10000
DefaultTimeout == 10000

\* --------------------------------------------------------------- variables
VARIABLES
  universe,     \* the request kinds clients send in this behaviour
  nodeEnv,      \* config.nodeEnv
  dbUp,         \* whether PostgreSQL answers queries
  startup,      \* the startup pool.connect test: connecting / released / failed
  nextId,       \* id of the next request the server accepts
  req,          \* id -> the request (method, url, body)
  pc,           \* id -> position of the request's handler
  queries,      \* id -> pool.query calls made for the request
  queryOutcome, \* id -> how the request's query settled: none / ok / failed
  responses,    \* id -> the responses sent for the request, in order
  connOpen,     \* id -> the request's connection is still open
  serverState,  \* listening / closing / closed
  closeCbs,     \* shutdown invocations whose callback waits for 'close'
  cbState,      \* invocation -> position of its server.close callback
  poolEnding,   \* pool.end() has been called
  poolEnded,    \* the pool has closed every client
  timers,       \* shutdown invocations whose 10 s timer is armed
  signals,      \* shutdown signals received
  exitCode,     \* NoExit, or the code passed to process.exit
  \* ---- HealthMonitorClient: one health check and its makeRequest call
  check,        \* the check running: none / backend / database / api
  mrPc,         \* makeRequest: idle / fetching / reading / resolved / rejected
  mrTimer,      \* the abort timer is armed
  mrAborted,    \* controller.abort() was called
  mrElapsed,    \* milliseconds since makeRequest was called
  mrAttempts,   \* fetch calls made by this makeRequest
  mrResponse,   \* the HTTP response fetch resolved with
  mrError,      \* the message makeRequest rejected with
  checkResult,  \* the HealthCheckResult the check returned (its status)
  \* ---- SystemHealthScreen
  runs,         \* runs of runAllHealthChecks started so far
  runPending,   \* run -> the checks of the run that have not settled
  runResult,    \* run -> check -> the status the check settled with
  runDone,      \* run -> the run passed its finally block
  healthChecks, \* state: [run, backend, database, api]
  locationStatus, \* state: [run, status]
  deviceInfo,   \* state: [run, status]
  lastRefresh,  \* state: the run that set it (0: the initial new Date())
  isRefreshing,
  isInitialLoad,
  \* ---- one runComprehensiveHealthCheck() against this backend
  compPc,       \* check -> idle / fetching / healthQuery / memQuery /
                \*          answered / settled
  compOutcome,  \* check -> how the query of its request settled
  compResp,     \* check -> the response the backend sent
  compResult,   \* check -> the HealthCheckResult the check returned
  \* ---- MemoryMapScreen
  mapPc,        \* initializeLocation: unmounted / services / permission /
                \*   position / health / done
  currentLocation,    \* state: NoLocation or [latitude, longitude]
  locationPermission, \* state
  isLoadingLocation,  \* state
  memoryPins,         \* state: the pins, newest first
  isLoadingMemories,  \* state
  backendStatus,      \* state: unknown / connected / disconnected
  mapAlert,           \* the title of the Alert on display, or none
  mapCreated,         \* the pins the Create Memory action has prepended
  mapClock,           \* Date.now(), in milliseconds since the mount
  \* ---- one run of a startup script
  shScript,     \* none / dev-start.sh / part_001 / start-dev.sh / dev-helper.sh
  shArgs,       \* the arguments of the run
  shEnv,        \* what the machine's tools and environment report
  shPc,         \* position of the run
  shIp,         \* NETWORK_IP (dev-start.sh) or HOST_IP (the other scripts)
  shStatus,     \* NoExit, or the exit status of the script
  shHostname,   \* REACT_NATIVE_PACKAGER_HOSTNAME as exported
  shDetectRan,  \* the script called its detection function
  shProbes,     \* dev-helper.sh: the addresses curl was run against, in order
  shTry,        \* dev-helper.sh: index in the for loop over the common IPs
  shDetectRc    \* dev-helper.sh: NoExit, or what detect_host_ip returned

serverVars == <<universe, nodeEnv, dbUp, startup, nextId, req, pc, queries,
                queryOutcome, responses, connOpen, serverState, closeCbs, cbState,
                poolEnding, poolEnded, timers, signals, exitCode>>

clientVars == <<check, mrPc, mrTimer, mrAborted, mrElapsed, mrAttempts,
                mrResponse, mrError, checkResult>>

screenVars == <<runs, runPending, runResult, runDone, healthChecks,
                locationStatus, deviceInfo, lastRefresh, isRefreshing,
                isInitialLoad>>

composedVars == <<compPc, compOutcome, compResp, compResult>>

mapVars == <<mapPc, currentLocation, locationPermission, isLoadingLocation,
             memoryPins, isLoadingMemories, backendStatus, mapAlert,
             mapCreated, mapClock>>

scriptVars == <<shScript, shArgs, shEnv, shPc, shIp, shStatus, shHostname,
                shDetectRan, shProbes, shTry, shDetectRc>>

otherVars == <<composedVars, mapVars, scriptVars>>

vars == <<serverVars, clientVars, screenVars, otherVars>>

\* ------------------------------------------------------------ the requests
Url(segs, slash) == [segs |-> segs, slash |-> slash]

Request(method, url, body) == [method |-> method, url |-> url, body |-> body]

UrlHealth == Url(<<"health">>, FALSE)
UrlHealthUpperSlash == Url(<<"HEALTH">>, TRUE)
UrlApi == Url(<<"api">>, FALSE)
UrlMemories == Url(<<"api", "memories">>, FALSE)
UrlUsers == Url(<<"api", "users">>, FALSE)
UrlUndecodable == Url(<<"%E0%A4%A">>, FALSE)

\* The request kinds clients send: the three routes, and requests that differ
\* from them in method, in the path's case and trailing slash, in the path,
\* in a body express.json cannot parse, or in a path that cannot be decoded.
Requests ==
  { Request("GET", UrlHealth, "none"),
    Request("HEAD", UrlHealth, "none"),
    Request("GET", UrlHealthUpperSlash, "none"),
    Request("POST", UrlHealth, "none"),
    Request("GET", UrlHealth, "malformed"),
    Request("GET", UrlApi, "none"),
    Request("GET", UrlMemories, "none"),
    Request("POST", UrlMemories, "none"),
    Request("GET", UrlUsers, "none"),
    Request("HEAD", UrlUsers, "none"),
    Request("OPTIONS", UrlUsers, "none"),
    Request("POST", UrlUsers, "malformed"),
    Request("GET", UrlUndecodable, "none") }

NoReq == [method |-> "-", url |-> Url(<<>>, FALSE), body |-> "none"]

NoExit == -1

Ids == 1..MaxReq
Invocations == 1..MaxSignals

\* ---------------------------------------------------------- express router
\* Routes are matched case-insensitively (the app never enables
\* 'case sensitive routing').
LowerSeg(s) == IF s = "HEALTH" THEN "health" ELSE s

Lower(segs) == [i \in DOMAIN segs |-> LowerSeg(segs[i])]

\* app.get(path, ...): the whole path must match, a trailing slash is
\* tolerated (no 'strict routing'), and HEAD falls back to the GET handler.
RouteMatches(routeSegs, r) ==
  /\ r.method \in {"GET", "HEAD"}
  /\ Lower(r.url.segs) = routeSegs

\* decodeURIComponent succeeds on the path
Decodable(url) == \A i \in DOMAIN url.segs : url.segs[i] # "%E0%A4%A"

\* ------------------------------------------------------------ the database
\* The row PostgreSQL returns for
\* SELECT NOW() as current_time, version() as postgres_version
HealthRow == [current_time |-> "db-now",
              postgres_version |-> <<"PostgreSQL", "15.4", "on", "x86_64">>]

\* The row PostgreSQL returns for SELECT NOW() as timestamp
MemoriesRow == [timestamp |-> "db-now"]

\* String.prototype.split(' ')[0]
SplitFirst(words) == words[1]

\* ---------------------------------------------------------- response bodies
Response(status, by, body) == [status |-> status, by |-> by, body |-> body]

NoBody == <<>>

\* res.json(): the body is written unless the request's method is HEAD
Send(r, resp) == IF r.method = "HEAD" THEN [resp EXCEPT !.body = NoBody] ELSE resp

HealthyBody(env, row) ==
  [status |-> "healthy",
   timestamp |-> "now",
   environment |-> env,
   database |-> [connected |-> TRUE,
                 current_time |-> row.current_time,
                 version |-> SplitFirst(row.postgres_version)],
   uptime |-> "uptime"]

UnhealthyBody ==
  [status |-> "unhealthy",
   timestamp |-> "now",
   error |-> "Database connection failed",
   uptime |-> "uptime"]

ApiBody ==
  [message |-> "Welcome to ReMap API",
   version |-> "1.0.0",
   description |-> "Your Interactive Memory Atlas API",
   endpoints |-> [health |-> "/health", api_info |-> "/api"],
   documentation |-> "Coming soon - this is where API docs will live"]

\* (mutant) the placeholder returns a stored memory
MemoriesBody_WithPin(row) ==
  [message |-> "Memories endpoint - ready for implementation",
   timestamp |-> row.timestamp,
   memories |-> <<"pin">>,
   count |-> 1,
   note |-> "ready for the full memory logic"]

MemoriesBody(row) ==
  [message |-> "Memories endpoint - ready for implementation",
   timestamp |-> row.timestamp,
   memories |-> <<>>,
   count |-> 0,
   note |-> "ready for the full memory logic"]

MemoriesErrorBody ==
  [error |-> "Internal server error", message |-> "Database query failed"]

ErrorMiddlewareBody(env, errMessage) ==
  [error |-> "Internal server error",
   message |-> IF env = "development" THEN errMessage
               ELSE "Something went wrong"]

AvailableEndpoints == <<"/health", "/api", "/api/memories">>

\* (mutant) the 404 body lists the endpoints the /api body lists
NotFoundBody_ApiList(r) ==
  [error |-> "Route not found",
   message |-> <<"The endpoint", r.method, r.url, "does not exist">>,
   available_endpoints |-> <<"/health", "/api">>]

NotFoundBody(r) ==
  [error |-> "Route not found",
   message |-> <<"The endpoint", r.method, r.url, "does not exist">>,
   available_endpoints |-> AvailableEndpoints]

\* await pool.query(...): resolves while PostgreSQL answers, rejects otherwise
QuerySettles(up) == IF up THEN "ok" ELSE "failed"

\* (mutant) the catch branch of GET /health answers 500 like the other routes
HealthResponse_Catch500(ok, env, row) ==
  IF ok THEN Response(200, "health", HealthyBody(env, row))
        ELSE Response(500, "health", UnhealthyBody)

\* GET /health: the try branch when the query resolved, the catch branch
\* when it rejected
HealthResponse(ok, env, row) ==
  IF ok THEN Response(200, "health", HealthyBody(env, row))
        ELSE Response(503, "health", UnhealthyBody)

\* GET /api/memories: the try branch and the catch branch
MemoriesResponse(ok, row) ==
  IF ok THEN Response(200, "memories", MemoriesBody(row))
        ELSE Response(500, "memories", MemoriesErrorBody)

\* ------------------------------------------------------------- the pipeline
\* (mutant) the /api handler queries the database like /api/memories
Dispatch_ApiQueriesDb(r, env) ==
  IF r.method = "OPTIONS"
    THEN [next |-> "done", resp |-> Response(204, "cors", NoBody)]
  ELSE IF r.body = "malformed"
    THEN [next |-> "done",
          resp |-> Response(500, "errorMiddleware",
                            ErrorMiddlewareBody(env, "Unexpected token in JSON"))]
  ELSE IF RouteMatches(<<"health">>, r)
    THEN [next |-> "healthQuery", resp |-> Response(0, "-", NoBody)]
  ELSE IF RouteMatches(<<"api">>, r) \/ RouteMatches(<<"api", "memories">>, r)
    THEN [next |-> "memQuery", resp |-> Response(0, "-", NoBody)]
  ELSE IF ~Decodable(r.url)
    THEN [next |-> "done", resp |-> Response(400, "finalhandler", NoBody)]
  ELSE [next |-> "done", resp |-> Response(404, "notFound", NotFoundBody(r))]

\* What the middleware stack and the router do with a request before any
\* await: either a response, or the route whose handler starts a query.
Dispatch(r, env) ==
  IF r.method = "OPTIONS"
    THEN [next |-> "done", resp |-> Response(204, "cors", NoBody)]
  ELSE IF r.body = "malformed"
    THEN [next |-> "done",
          resp |-> Response(500, "errorMiddleware",
                            ErrorMiddlewareBody(env, "Unexpected token in JSON"))]
  ELSE IF RouteMatches(<<"health">>, r)
    THEN [next |-> "healthQuery", resp |-> Response(0, "-", NoBody)]
  ELSE IF RouteMatches(<<"api">>, r)
    THEN [next |-> "done", resp |-> Response(200, "api", ApiBody)]
  ELSE IF RouteMatches(<<"api", "memories">>, r)
    THEN [next |-> "memQuery", resp |-> Response(0, "-", NoBody)]
  ELSE IF ~Decodable(r.url)
    THEN [next |-> "done", resp |-> Response(400, "finalhandler", NoBody)]
  ELSE [next |-> "done", resp |-> Response(404, "notFound", NotFoundBody(r))]

\* --------------------------------------------------------------- the pool
\* Clients the pool cannot close yet: the startup test connection while it
\* connects, and one per query in flight.
ActiveClients(st, p) ==
  (IF st = "connecting" THEN 1 ELSE 0)
  + Cardinality({i \in Ids : p[i] \in {"healthQuery", "memQuery"}})

\* pg-pool ends once end() was called and no client is left to close
PoolPulse(ending, ended, st, p) ==
  ended \/ (ending /\ ActiveClients(st, p) = 0)

Running == exitCode = NoExit

\* ------------------------------------------------------ HealthMonitorClient
HttpResponse(status, json, data) ==
  [status |-> status, json |-> json, data |-> data]

NoResponse == HttpResponse(0, FALSE, NoBody)

\* a 2xx /health body that reports a problem
DegradedBody ==
  [status |-> "unhealthy",
   timestamp |-> "now",
   environment |-> "development",
   database |-> [connected |-> FALSE, current_time |-> "-", version |-> "-"],
   uptime |-> "uptime"]

\* a 2xx /health body with status 'healthy' whose database is not connected
DisconnectedBody == [DegradedBody EXCEPT !.status = "healthy"]

\* the responses a backend can give the client
ClientResponses ==
  { HttpResponse(200, TRUE, HealthyBody("development", HealthRow)),
    HttpResponse(200, TRUE, DegradedBody),
    HttpResponse(200, TRUE, DisconnectedBody),
    HttpResponse(200, TRUE, ApiBody),
    HttpResponse(200, FALSE, NoBody),
    HttpResponse(503, TRUE, UnhealthyBody),
    HttpResponse(500, TRUE, MemoriesErrorBody) }

\* (mutant) makeRequest does not look at response.ok
ResponseOk_Any(resp) == resp.status >= 200

\* Response.ok
ResponseOk(resp) == resp.status >= 200 /\ resp.status <= 299

CheckName(c) ==
  CASE c = "backend" -> "Backend API Connection"
    [] c = "database" -> "Database Integration"
    [] c = "api" -> "API Endpoints"

HealthCheckResult(name, status, message) ==
  [name |-> name, status |-> status, message |-> message]

NoResult == HealthCheckResult("-", "none", "-")

createErrorResult(name, message) == HealthCheckResult(name, "error", message)

\* the catch block of the check that called makeRequest
CheckCatch(c, errMessage) ==
  CASE c = "backend" -> createErrorResult(CheckName(c), errMessage)
    [] c = "database" -> createErrorResult(CheckName(c), "Database query failed")
    [] c = "api" -> createErrorResult(CheckName(c), "API endpoint test failed")

\* !healthData.status || !healthData.database
InvalidHealthData(data) ==
  ~("status" \in DOMAIN data) \/ ~("database" \in DOMAIN data)

\* (mutant) isHealthy looks at the status only
checkBackendHealth_StatusOnly(data) ==
  IF InvalidHealthData(data)
    THEN CheckCatch("backend", "Invalid health check response format")
  ELSE IF data.status = "healthy"
    THEN HealthCheckResult(CheckName("backend"), "healthy", "Connected")
  ELSE HealthCheckResult(CheckName("backend"), "warning",
                         "Backend reported issues")

\* the try block of checkBackendHealth once makeRequest resolved
checkBackendHealth(data) ==
  IF InvalidHealthData(data)
    THEN CheckCatch("backend", "Invalid health check response format")
  ELSE IF data.status = "healthy" /\ data.database.connected
    THEN HealthCheckResult(CheckName("backend"), "healthy", "Connected")
  ELSE HealthCheckResult(CheckName("backend"), "warning",
                         "Backend reported issues")

\* the try block of the check once makeRequest resolved
CheckTry(c, data) ==
  CASE c = "backend" -> checkBackendHealth(data)
    [] c = "database" ->
         HealthCheckResult(CheckName(c), "healthy",
                           "Database queries working correctly")
    [] c = "api" ->
         HealthCheckResult(CheckName(c), "healthy",
                           "API endpoints responding correctly")

\* ------------------------------------------------------------------- Init
InitServer(u) ==
  /\ universe = u
  /\ nodeEnv \in {"development", "production"}
  /\ dbUp \in BOOLEAN
  /\ startup = "connecting"
  /\ nextId = 1
  /\ req = [i \in Ids |-> NoReq]
  /\ pc = [i \in Ids |-> "idle"]
  /\ queries = [i \in Ids |-> 0]
  /\ queryOutcome = [i \in Ids |-> "none"]
  /\ responses = [i \in Ids |-> <<>>]
  /\ connOpen = [i \in Ids |-> FALSE]
  /\ serverState = "listening"
  /\ closeCbs = <<>>
  /\ cbState = [k \in Invocations |-> "none"]
  /\ poolEnding = FALSE
  /\ poolEnded = FALSE
  /\ timers = {}
  /\ signals = 0
  /\ exitCode = NoExit

\* the health monitor before any check
InitClient ==
  /\ check = "none"
  /\ mrPc = "idle"
  /\ mrTimer = FALSE
  /\ mrAborted = FALSE
  /\ mrElapsed = 0
  /\ mrAttempts = 0
  /\ mrResponse = NoResponse
  /\ mrError = "-"
  /\ checkResult = NoResult

Runs == 1..MaxRuns

Checks == {"backend", "database", "api", "location", "device"}

\* the screen's useState initial values
InitScreen ==
  /\ runs = 0
  /\ runPending = [r \in Runs |-> {}]
  /\ runResult = [r \in Runs |-> [c \in Checks |-> "checking"]]
  /\ runDone = [r \in Runs |-> FALSE]
  /\ healthChecks = [run |-> 0, backend |-> "-", database |-> "-", api |-> "-"]
  /\ locationStatus = [run |-> 0, status |-> "-"]
  /\ deviceInfo = [run |-> 0, status |-> "-"]
  /\ lastRefresh = 0
  /\ isRefreshing = FALSE
  /\ isInitialLoad = TRUE

\* the three checks runComprehensiveHealthCheck runs
CompChecks == {"backend", "database", "api"}

InitComposed ==
  /\ compPc = [c \in CompChecks |-> "idle"]
  /\ compOutcome = [c \in CompChecks |-> "none"]
  /\ compResp = [c \in CompChecks |-> Response(0, "-", NoBody)]
  /\ compResult = [c \in CompChecks |-> NoResult]

NoLocation == [latitude |-> 0, longitude |-> 0, set |-> FALSE]

\* the map screen's useState initial values
InitMap ==
  /\ mapPc = "unmounted"
  /\ currentLocation = NoLocation
  /\ locationPermission = "unknown"
  /\ isLoadingLocation = FALSE
  /\ memoryPins = <<>>
  /\ isLoadingMemories = FALSE
  /\ backendStatus = "unknown"
  /\ mapAlert = "none"
  /\ mapCreated = {}
  /\ mapClock = 0

\* no script has been run
InitScript ==
  /\ shScript = "none"
  /\ shArgs = <<>>
  /\ shEnv = [kind |-> "none"]
  /\ shPc = "shell"
  /\ shIp = <<>>
  /\ shStatus = NoExit
  /\ shHostname = <<>>
  /\ shDetectRan = FALSE
  /\ shProbes = <<>>
  /\ shTry = 0
  /\ shDetectRc = NoExit

InitOther == InitComposed /\ InitMap /\ InitScript

Init == InitServer(Requests) /\ InitClient /\ InitScreen /\ InitOther

\* ---------------------------------------------------------------- actions
cfgVars == <<universe, nodeEnv>>
reqVars == <<nextId, req, pc, queries, queryOutcome, responses, connOpen>>
shutdownVars == <<serverState, closeCbs, cbState, poolEnding, timers,
                  signals, exitCode>>

\* PostgreSQL goes down or comes back
DbToggle ==
  /\ Running
  /\ dbUp' = ~dbUp
  /\ UNCHANGED <<clientVars, screenVars, otherVars>>
  /\ UNCHANGED <<cfgVars, startup, reqVars, poolEnded, shutdownVars>>

\* pool.connect callback at startup: release() on success, log on error
StartupConnectDone ==
  /\ Running
  /\ startup = "connecting"
  /\ startup' = IF dbUp THEN "released" ELSE "failed"
  /\ poolEnded' = PoolPulse(poolEnding, poolEnded, startup', pc)
  /\ UNCHANGED <<clientVars, screenVars, otherVars>>
  /\ UNCHANGED <<cfgVars, dbUp, reqVars, shutdownVars>>

\* A request arrives and runs through the middleware and the router up to
\* the handler's first await.
Receive(r) ==
  /\ Running
  /\ serverState = "listening"
  /\ nextId <= MaxReq
  /\ r \in universe
  /\ LET d == Dispatch(r, nodeEnv)
         id == nextId
     IN /\ req' = [req EXCEPT ![id] = r]
        /\ pc' = [pc EXCEPT ![id] = d.next]
        /\ queries' = [queries EXCEPT ![id] = IF d.next = "done" THEN 0 ELSE 1]
        /\ responses' = [responses EXCEPT
                           ![id] = IF d.next = "done" THEN <<Send(r, d.resp)>>
                                   ELSE <<>>]
        /\ connOpen' = [connOpen EXCEPT ![id] = TRUE]
        /\ nextId' = nextId + 1
  /\ UNCHANGED <<clientVars, screenVars, otherVars>>
  /\ UNCHANGED <<cfgVars, dbUp, startup, queryOutcome, poolEnded, shutdownVars>>

\* (mutant) the catch branch runs the query once more before it answers 503
HealthQueryDone_Retry(id) ==
  /\ Running
  /\ pc[id] = "healthQuery"
  /\ IF ~dbUp /\ queries[id] < 2
       THEN /\ queries' = [queries EXCEPT ![id] = @ + 1]
            /\ UNCHANGED <<queryOutcome, responses, pc, poolEnded>>
       ELSE /\ queryOutcome' = [queryOutcome EXCEPT ![id] = QuerySettles(dbUp)]
            /\ responses' = [responses EXCEPT
                  ![id] = Append(@, Send(req[id],
                               HealthResponse(dbUp, nodeEnv, HealthRow)))]
            /\ pc' = [pc EXCEPT ![id] = "done"]
            /\ poolEnded' = PoolPulse(poolEnding, poolEnded, startup, pc')
            /\ UNCHANGED queries
  /\ UNCHANGED <<clientVars, screenVars, otherVars>>
  /\ UNCHANGED <<cfgVars, dbUp, startup, nextId, req, connOpen, shutdownVars>>

\* GET /health after its await: the try branch or the catch branch
HealthQueryDone(id) ==
  /\ Running
  /\ pc[id] = "healthQuery"
  /\ queryOutcome' = [queryOutcome EXCEPT ![id] = QuerySettles(dbUp)]
  /\ responses' = [responses EXCEPT
                     ![id] = Append(@, Send(req[id],
                               HealthResponse(dbUp, nodeEnv, HealthRow)))]
  /\ pc' = [pc EXCEPT ![id] = "done"]
  /\ poolEnded' = PoolPulse(poolEnding, poolEnded, startup, pc')
  /\ UNCHANGED <<clientVars, screenVars, otherVars>>
  /\ UNCHANGED <<cfgVars, dbUp, startup, nextId, req, queries, connOpen,
                 shutdownVars>>

\* GET /api/memories after its await: the try branch or the catch branch
MemoriesQueryDone(id) ==
  /\ Running
  /\ pc[id] = "memQuery"
  /\ queryOutcome' = [queryOutcome EXCEPT ![id] = QuerySettles(dbUp)]
  /\ responses' = [responses EXCEPT
                     ![id] = Append(@, Send(req[id],
                               MemoriesResponse(dbUp, MemoriesRow)))]
  /\ pc' = [pc EXCEPT ![id] = "done"]
  /\ poolEnded' = PoolPulse(poolEnding, poolEnded, startup, pc')
  /\ UNCHANGED <<clientVars, screenVars, otherVars>>
  /\ UNCHANGED <<cfgVars, dbUp, startup, nextId, req, queries, connOpen,
                 shutdownVars>>

\* The connection of an answered request ends
ConnEnd(id) ==
  /\ Running
  /\ connOpen[id]
  /\ pc[id] = "done"
  /\ connOpen' = [connOpen EXCEPT ![id] = FALSE]
  /\ UNCHANGED <<clientVars, screenVars, otherVars>>
  /\ UNCHANGED <<cfgVars, dbUp, startup, nextId, req, pc, queries,
                 queryOutcome, responses, poolEnded, shutdownVars>>

\* gracefulShutdown(signal) up to its return: server.close(callback) stops the
\* listener and registers the callback for 'close'; setTimeout arms the timer.
gracefulShutdown ==
  /\ Running
  /\ signals < MaxSignals
  /\ LET k == signals + 1
     IN /\ signals' = k
        /\ serverState' = IF serverState = "listening" THEN "closing"
                          ELSE serverState
        /\ closeCbs' = Append(closeCbs, k)
        /\ cbState' = [cbState EXCEPT ![k] = "waitClose"]
        /\ timers' = timers \cup {k}
  /\ UNCHANGED <<clientVars, screenVars, otherVars>>
  /\ UNCHANGED <<cfgVars, dbUp, startup, reqVars, poolEnding, poolEnded,
                 exitCode>>

\* pool.end() as the k-th registered callback meets it: the first call starts
\* ending the pool, a call on a pool that is already ending rejects with
\* 'Called end on pool more than once'.
PoolEndCall(k, alreadyEnding, cbs) ==
  IF ~alreadyEnding /\ k = Head(cbs) THEN "awaitEnd" ELSE "endRejected"

\* The server emits 'close' (listener stopped, no connection left): every
\* registered callback runs up to its await of pool.end().
ServerClose ==
  /\ Running
  /\ serverState # "listening"
  /\ closeCbs # <<>>
  /\ \A id \in Ids : ~connOpen[id]
  /\ serverState' = "closed"
  /\ cbState' = [k \in Invocations |->
                   IF \E j \in DOMAIN closeCbs : closeCbs[j] = k
                     THEN PoolEndCall(k, poolEnding, closeCbs)
                     ELSE cbState[k]]
  /\ closeCbs' = <<>>
  /\ poolEnding' = TRUE
  /\ poolEnded' = PoolPulse(TRUE, poolEnded, startup, pc)
  /\ UNCHANGED <<clientVars, screenVars, otherVars>>
  /\ UNCHANGED <<cfgVars, dbUp, startup, reqVars, timers, signals, exitCode>>

\* The callback continues after its await: pool.end() resolved, or its
\* rejection was caught; either way it calls process.exit(0).
CallbackResume(k) ==
  /\ Running
  /\ \/ cbState[k] = "awaitEnd" /\ poolEnded
     \/ cbState[k] = "endRejected"
  /\ cbState' = [cbState EXCEPT ![k] = "exited"]
  /\ exitCode' = 0
  /\ UNCHANGED <<clientVars, screenVars, otherVars>>
  /\ UNCHANGED <<cfgVars, dbUp, startup, reqVars, serverState, closeCbs,
                 poolEnding, poolEnded, timers, signals>>

\* The 10 s timer of a shutdown invocation fires
ForceExit(k) ==
  /\ Running
  /\ k \in timers
  /\ timers' = timers \ {k}
  /\ exitCode' = 1
  /\ UNCHANGED <<clientVars, screenVars, otherVars>>
  /\ UNCHANGED <<cfgVars, dbUp, startup, reqVars, serverState, closeCbs,
                 cbState, poolEnding, poolEnded, signals>>

NextHttp ==
  \/ DbToggle
  \/ StartupConnectDone
  \/ \E r \in Requests : Receive(r)
  \/ \E id \in Ids : HealthQueryDone(id)
  \/ \E id \in Ids : MemoriesQueryDone(id)
  \/ \E id \in Ids : ConnEnd(id)

Spec == Init /\ [][NextHttp]_vars

\* The server's whole life, shutdown included, under a smaller set of requests
ShutdownRequests ==
  { Request("GET", UrlHealth, "none"), Request("GET", UrlMemories, "none"),
    Request("GET", UrlApi, "none") }

InitShutdown ==
  InitServer(ShutdownRequests) /\ InitClient /\ InitScreen /\ InitOther

NextShutdown ==
  \/ NextHttp
  \/ gracefulShutdown
  \/ ServerClose
  \/ \E k \in Invocations : CallbackResume(k)
  \/ \E k \in Invocations : ForceExit(k)

SpecShutdown == InitShutdown /\ [][NextShutdown]_vars

\* Node runs a timer that is due: the force-exit timer of a shutdown fires
\* unless the process has exited before
SpecShutdownFair ==
  SpecShutdown /\ WF_vars(\E k \in Invocations : ForceExit(k))

\* after a shutdown signal the process exits
ShutdownTerminates == (signals > 0) ~> (exitCode # NoExit)

\* ------------------------------------------------- HealthMonitorClient steps
clientRest == <<serverVars, screenVars, otherVars>>

\* makeRequest rejects and the check that awaited it returns its error result
MakeRequestRejects(message) ==
  /\ mrPc' = "rejected"
  /\ mrTimer' = FALSE
  /\ mrError' = message
  /\ checkResult' = CheckCatch(check, message)

\* A check calls makeRequest: the abort timer is armed and fetch is called
StartCheck(c) ==
  /\ mrPc \in {"idle", "resolved", "rejected"}
  /\ check' = c
  /\ mrPc' = "fetching"
  /\ mrTimer' = TRUE
  /\ mrAborted' = FALSE
  /\ mrElapsed' = 0
  /\ mrAttempts' = 1
  /\ mrResponse' = NoResponse
  /\ mrError' = "-"
  /\ checkResult' = NoResult
  /\ UNCHANGED clientRest

\* fetch resolves with the response's status line and headers: the timer is
\* cleared; a status outside 2xx is thrown, otherwise response.json() is awaited
FetchResolves(resp) ==
  /\ mrPc = "fetching"
  /\ mrResponse' = resp
  /\ IF ~ResponseOk(resp)
       THEN MakeRequestRejects(<<"HTTP", resp.status>>)
       ELSE /\ mrPc' = "reading"
            /\ mrTimer' = FALSE
            /\ UNCHANGED <<mrError, checkResult>>
  /\ UNCHANGED <<check, mrAborted, mrElapsed, mrAttempts, clientRest>>

\* fetch rejects with 'Network request failed'
FetchFails ==
  /\ mrPc = "fetching"
  /\ MakeRequestRejects("Network error - is the backend server running?")
  /\ UNCHANGED <<check, mrAborted, mrElapsed, mrAttempts, mrResponse,
                 clientRest>>

\* the body arrives and response.json() settles; the check builds its result
BodyArrives ==
  /\ mrPc = "reading"
  /\ IF mrResponse.json
       THEN /\ mrPc' = "resolved"
            /\ checkResult' = CheckTry(check, mrResponse.data)
            /\ UNCHANGED <<mrTimer, mrError>>
       ELSE MakeRequestRejects("JSON Parse error")
  /\ UNCHANGED <<check, mrAborted, mrElapsed, mrAttempts, mrResponse,
                 clientRest>>

\* the timer fires: controller.abort() makes the pending fetch reject with an
\* AbortError, which the catch block turns into the timeout message
TimeoutFires ==
  /\ mrTimer
  /\ mrElapsed >= DefaultTimeout
  /\ mrAborted' = TRUE
  /\ MakeRequestRejects("Request timeout - check your network connection")
  /\ UNCHANGED <<check, mrElapsed, mrAttempts, mrResponse, clientRest>>

\* time passes while makeRequest is pending; an armed timer fires when due
Tick ==
  /\ mrPc \in {"fetching", "reading"}
  /\ mrElapsed < MaxElapsed
  /\ ~(mrTimer /\ mrElapsed >= DefaultTimeout)
  /\ mrElapsed' = mrElapsed + TickMs
  /\ UNCHANGED <<check, mrPc, mrTimer, mrAborted, mrAttempts, mrResponse,
                 mrError, checkResult, clientRest>>

NextClient ==
  \/ \E c \in {"backend", "database", "api"} : StartCheck(c)
  \/ \E resp \in ClientResponses : FetchResolves(resp)
  \/ FetchFails
  \/ BodyArrives
  \/ TimeoutFires
  \/ Tick

\* the server stays as constructed while the client is examined
InitIdleServer ==
  InitServer({}) /\ nodeEnv = "development" /\ dbUp

InitClientSpec == InitIdleServer /\ InitClient /\ InitScreen /\ InitOther

SpecClient == InitClientSpec /\ [][NextClient]_vars

\* ------------------------------------------------------ SystemHealthScreen
screenRest == <<serverVars, clientVars, otherVars>>

\* the statuses a check can settle with
CheckOutcomes(c) ==
  CASE c = "backend" -> {"healthy", "error"}
    [] c = "database" -> {"healthy"}
    [] c = "api" -> {"healthy"}
    [] c = "location" -> {"healthy", "warning"}
    [] c = "device" -> {"healthy"}

\* runAllHealthChecks up to its await: setIsRefreshing(true), then Promise.all
\* over runComprehensiveHealthCheck(), checkLocationServices() and
\* checkDeviceCompatibility(); the device check has no await and is settled
\* by the time Promise.all is called.
runAllHealthChecks ==
  /\ runs < MaxRuns
  /\ runs' = runs + 1
  /\ isRefreshing' = TRUE
  /\ runPending' = [runPending EXCEPT ![runs + 1] = Checks \ {"device"}]
  /\ runResult' = [runResult EXCEPT ![runs + 1]["device"] = "healthy"]
  /\ UNCHANGED <<runDone, healthChecks, locationStatus, deviceInfo,
                 lastRefresh, isInitialLoad, screenRest>>

\* useEffect(() => { runAllHealthChecks(); }, [runAllHealthChecks]) at mount
MountEffect ==
  /\ runs = 0
  /\ runAllHealthChecks

\* the Manual Refresh button: rendered after the initial load,
\* disabled={isRefreshing}
PressRefresh ==
  /\ ~isInitialLoad
  /\ ~isRefreshing
  /\ runAllHealthChecks

\* <RefreshControl onRefresh={runAllHealthChecks}>: rendered after the
\* initial load
PullRefresh ==
  /\ ~isInitialLoad
  /\ runAllHealthChecks

\* one check of a run settles (every check catches its own errors)
CheckSettles(r, c) ==
  /\ r <= runs
  /\ c \in runPending[r]
  /\ \E st \in CheckOutcomes(c) :
       runResult' = [runResult EXCEPT ![r][c] = st]
  /\ runPending' = [runPending EXCEPT ![r] = @ \ {c}]
  /\ UNCHANGED <<runs, runDone, healthChecks, locationStatus, deviceInfo,
                 lastRefresh, isRefreshing, isInitialLoad, screenRest>>

\* (mutant) the backend results are shown as soon as the three backend checks
\* have settled
RunCompletes_BackendFirst(r) ==
  /\ r <= runs
  /\ ~runDone[r]
  /\ runPending[r] \cap {"backend", "database", "api"} = {}
  /\ healthChecks' = [run |-> r,
                      backend |-> runResult[r]["backend"],
                      database |-> runResult[r]["database"],
                      api |-> runResult[r]["api"]]
  /\ locationStatus' = [run |-> r, status |-> runResult[r]["location"]]
  /\ deviceInfo' = [run |-> r, status |-> runResult[r]["device"]]
  /\ lastRefresh' = r
  /\ isRefreshing' = FALSE
  /\ isInitialLoad' = FALSE
  /\ runDone' = [runDone EXCEPT ![r] = TRUE]
  /\ UNCHANGED <<runs, runPending, runResult, screenRest>>

\* runAllHealthChecks after its await: Promise.all resolved, the four setters
\* run in one turn, then the finally block
RunCompletes(r) ==
  /\ r <= runs
  /\ ~runDone[r]
  /\ runPending[r] = {}
  /\ healthChecks' = [run |-> r,
                      backend |-> runResult[r]["backend"],
                      database |-> runResult[r]["database"],
                      api |-> runResult[r]["api"]]
  /\ locationStatus' = [run |-> r, status |-> runResult[r]["location"]]
  /\ deviceInfo' = [run |-> r, status |-> runResult[r]["device"]]
  /\ lastRefresh' = r
  /\ isRefreshing' = FALSE
  /\ isInitialLoad' = FALSE
  /\ runDone' = [runDone EXCEPT ![r] = TRUE]
  /\ UNCHANGED <<runs, runPending, runResult, screenRest>>

NextScreen ==
  \/ MountEffect
  \/ PressRefresh
  \/ PullRefresh
  \/ \E r \in Runs : \E c \in Checks : CheckSettles(r, c)
  \/ \E r \in Runs : RunCompletes(r)

SpecScreen == InitClientSpec /\ [][NextScreen]_vars

\* ------------------------------------------- the client against the backend
composedRest == <<serverVars, clientVars, screenVars, mapVars, scriptVars>>

\* the path each check requests
CheckUrl(c) ==
  CASE c = "backend" -> UrlHealth
    [] c = "database" -> UrlMemories
    [] c = "api" -> UrlApi

\* runComprehensiveHealthCheck: Promise.all over the three checks, each of
\* which runs to the fetch call of its makeRequest
runComprehensiveHealthCheck ==
  /\ \A c \in CompChecks : compPc[c] = "idle"
  /\ compPc' = [c \in CompChecks |-> "fetching"]
  /\ UNCHANGED <<compOutcome, compResp, compResult, composedRest>>

\* the backend receives the check's GET and runs it up to the first await
CompReceive(c) ==
  /\ compPc[c] = "fetching"
  /\ LET d == Dispatch(Request("GET", CheckUrl(c), "none"), nodeEnv)
     IN /\ compPc' = [compPc EXCEPT ![c] = IF d.next = "done" THEN "answered"
                                           ELSE d.next]
        /\ compResp' = [compResp EXCEPT ![c] = d.resp]
  /\ UNCHANGED <<compOutcome, compResult, composedRest>>

\* the handler's pool.query settles and the handler responds
CompQueryDone(c) ==
  /\ compPc[c] \in {"healthQuery", "memQuery"}
  /\ LET ok == QuerySettles(dbUp) = "ok"
     IN /\ compOutcome' = [compOutcome EXCEPT ![c] = QuerySettles(dbUp)]
        /\ compResp' = [compResp EXCEPT
                          ![c] = IF compPc[c] = "healthQuery"
                                   THEN HealthResponse(ok, nodeEnv, HealthRow)
                                   ELSE MemoriesResponse(ok, MemoriesRow)]
  /\ compPc' = [compPc EXCEPT ![c] = "answered"]
  /\ UNCHANGED <<compResult, composedRest>>

\* the response reaches makeRequest, whose caller returns its result
CompDeliver(c) ==
  /\ compPc[c] = "answered"
  /\ LET resp == HttpResponse(compResp[c].status, TRUE, compResp[c].body)
     IN compResult' =
          [compResult EXCEPT
             ![c] = IF ResponseOk(resp) THEN CheckTry(c, resp.data)
                    ELSE CheckCatch(c, <<"HTTP", resp.status>>)]
  /\ compPc' = [compPc EXCEPT ![c] = "settled"]
  /\ UNCHANGED <<compOutcome, compResp, composedRest>>

\* the query outlasts the client's timeout: makeRequest aborts and rejects
CompTimeout(c) ==
  /\ compPc[c] \in {"healthQuery", "memQuery"}
  /\ compResult' =
       [compResult EXCEPT
          ![c] = CheckCatch(c, "Request timeout - check your network connection")]
  /\ compPc' = [compPc EXCEPT ![c] = "settled"]
  /\ UNCHANGED <<compOutcome, compResp, composedRest>>

NextComposed ==
  \/ runComprehensiveHealthCheck
  \/ \E c \in CompChecks : CompReceive(c)
  \/ \E c \in CompChecks : CompQueryDone(c)
  \/ \E c \in CompChecks : CompDeliver(c)
  \/ \E c \in CompChecks : CompTimeout(c)
  \/ DbToggle

InitComposedSpec ==
  InitServer({}) /\ InitClient /\ InitScreen /\ InitOther

SpecComposed == InitComposedSpec /\ [][NextComposed]_vars

\* ---------------------------------------------------------- MemoryMapScreen
mapRest == <<serverVars, clientVars, screenVars, composedVars, scriptVars>>

\* positions getCurrentPositionAsync can report, in thousandths of a degree
Positions == { [latitude |-> 0, longitude |-> 0, set |-> TRUE],
               [latitude |-> -33868, longitude |-> 151209, set |-> TRUE] }

MemoryPin(id, latitude, longitude, title, author) ==
  [id |-> id, latitude |-> latitude, longitude |-> longitude,
   title |-> title, author |-> author]

\* the four pins loadSampleMemories builds around the position
sampleMemories(latitude, longitude) ==
  << MemoryPin("1", latitude + 1, longitude + 1,
               "Team Development Breakthrough", "Development Team"),
     MemoryPin("2", latitude - 2, longitude + 3,
               "ReMap Architecture Planning", "System Architects"),
     MemoryPin("3", latitude + 3, longitude - 1,
               "Health Monitoring Success", "Mobile Development Team"),
     MemoryPin("4", latitude - 1, longitude - 2,
               "Professional Development Milestone", "Project Lead") >>

\* loadSampleMemories: setMemoryPins(sampleMemories)
loadSampleMemories(pins, latitude, longitude) ==
  sampleMemories(latitude, longitude)

\* the pin the Create Memory button of the dialog builds
newMemory(now, loc) ==
  MemoryPin("Date.now+" \o ToString(now), loc.latitude, loc.longitude,
            "New Development Memory", "You")

\* initializeLocation up to its first await; called by the mount effect and
\* by the Get Location button, which shows while no location is known
initializeLocation ==
  /\ \/ mapPc = "unmounted"
     \/ /\ mapPc = "done"
        /\ ~currentLocation.set
        /\ mapAlert = "none"
  /\ mapPc' = "services"
  /\ isLoadingLocation' = TRUE
  /\ UNCHANGED <<currentLocation, locationPermission, memoryPins,
                 isLoadingMemories, backendStatus, mapAlert, mapCreated,
                 mapClock, mapRest>>

\* Location.hasServicesEnabledAsync() resolves
ServicesChecked(enabled) ==
  /\ mapPc = "services"
  /\ IF enabled
       THEN /\ mapPc' = "permission"
            /\ UNCHANGED <<isLoadingLocation, mapAlert>>
       ELSE /\ mapPc' = "done"
            /\ mapAlert' = "Location Services Required"
            /\ isLoadingLocation' = FALSE
  /\ UNCHANGED <<currentLocation, locationPermission, memoryPins,
                 isLoadingMemories, backendStatus, mapCreated, mapClock,
                 mapRest>>

\* Location.requestForegroundPermissionsAsync() resolves
PermissionAnswered(status) ==
  /\ mapPc = "permission"
  /\ locationPermission' = status
  /\ IF status = "granted"
       THEN /\ mapPc' = "position"
            /\ UNCHANGED <<isLoadingLocation, mapAlert>>
       ELSE /\ mapPc' = "done"
            /\ mapAlert' = "Location Permission Required"
            /\ isLoadingLocation' = FALSE
  /\ UNCHANGED <<currentLocation, memoryPins, isLoadingMemories,
                 backendStatus, mapCreated, mapClock, mapRest>>

\* Location.getCurrentPositionAsync() resolves: setCurrentLocation, then
\* loadMemoriesForLocation runs up to await checkBackendHealth()
PositionArrives(loc) ==
  /\ mapPc = "position"
  /\ currentLocation' = loc
  /\ isLoadingMemories' = TRUE
  /\ mapPc' = "health"
  /\ UNCHANGED <<locationPermission, isLoadingLocation, memoryPins,
                 backendStatus, mapAlert, mapCreated, mapClock, mapRest>>

\* Location.getCurrentPositionAsync() rejects: the catch and finally blocks
PositionFails ==
  /\ mapPc = "position"
  /\ mapPc' = "done"
  /\ mapAlert' = "Location Error"
  /\ isLoadingLocation' = FALSE
  /\ UNCHANGED <<currentLocation, locationPermission, memoryPins,
                 isLoadingMemories, backendStatus, mapCreated, mapClock,
                 mapRest>>

\* checkBackendHealth() settles: setBackendStatus, loadSampleMemories on
\* either branch, the finally blocks of loadMemoriesForLocation and of
\* initializeLocation
HealthSettles(status) ==
  /\ mapPc = "health"
  /\ backendStatus' = IF status = "healthy" THEN "connected" ELSE "disconnected"
  /\ memoryPins' = loadSampleMemories(memoryPins, currentLocation.latitude,
                                      currentLocation.longitude)
  /\ isLoadingMemories' = FALSE
  /\ isLoadingLocation' = FALSE
  /\ mapPc' = "done"
  /\ UNCHANGED <<currentLocation, locationPermission, mapAlert, mapCreated,
                 mapClock, mapRest>>

\* the create button, enabled while a location is known: the dialog opens
createNewMemory ==
  /\ mapAlert = "none"
  /\ currentLocation.set
  /\ mapAlert' = "Create Memory"
  /\ UNCHANGED <<mapPc, currentLocation, locationPermission,
                 isLoadingLocation, memoryPins, isLoadingMemories,
                 backendStatus, mapCreated, mapClock, mapRest>>

\* the dialog's Create Memory button: setMemoryPins(prev => [newMemory,
\* ...prev]) and the confirmation
PressCreateMemory ==
  /\ mapAlert = "Create Memory"
  /\ mapClock < MaxCreates
  /\ LET pin == newMemory(mapClock + 1, currentLocation)
     IN /\ memoryPins' = <<pin>> \o memoryPins
        /\ mapCreated' = mapCreated \cup {pin}
  /\ mapClock' = mapClock + 1
  /\ mapAlert' = "Memory Created!"
  /\ UNCHANGED <<mapPc, currentLocation, locationPermission,
                 isLoadingLocation, isLoadingMemories, backendStatus, mapRest>>

\* Cancel or OK closes the Alert on display
DismissAlert ==
  /\ mapAlert # "none"
  /\ mapAlert' = "none"
  /\ UNCHANGED <<mapPc, currentLocation, locationPermission,
                 isLoadingLocation, memoryPins, isLoadingMemories,
                 backendStatus, mapCreated, mapClock, mapRest>>

NextMap ==
  \/ initializeLocation
  \/ \E enabled \in BOOLEAN : ServicesChecked(enabled)
  \/ \E status \in {"granted", "denied"} : PermissionAnswered(status)
  \/ \E loc \in Positions : PositionArrives(loc)
  \/ PositionFails
  \/ \E status \in {"healthy", "warning", "error"} : HealthSettles(status)
  \/ createNewMemory
  \/ PressCreateMemory
  \/ DismissAlert

InitMapSpec == InitIdleServer /\ InitClient /\ InitScreen /\ InitOther

SpecMap == InitMapSpec /\ [][NextMap]_vars

\* ---------------------------------------------------------- startup scripts
\* A shell string is a sequence of atoms: every digit and every dot is an
\* atom of its own, "\n" is the newline, any other atom is a run of
\* characters that holds no digit, dot, blank or newline.
Digits == {"0", "1", "2", "3", "4", "5", "6", "7", "8", "9"}

Ip_192_168_1_22 == <<"1", "9", "2", ".", "1", "6", "8", ".", "1", ".", "2", "2">>
Ip_192_168_1_50 == <<"1", "9", "2", ".", "1", "6", "8", ".", "1", ".", "5", "0">>
Ip_127_0_0_1 == <<"1", "2", "7", ".", "0", ".", "0", ".", "1">>
Ip_172_17_0_1 == <<"1", "7", "2", ".", "1", "7", ".", "0", ".", "1">>
Ip_10_0_0_5 == <<"1", "0", ".", "0", ".", "0", ".", "5">>
Ip_192_168_65_2 == <<"1", "9", "2", ".", "1", "6", "8", ".", "6", "5", ".", "2">>
Ip_192_168_1_1 == <<"1", "9", "2", ".", "1", "6", "8", ".", "1", ".", "1">>
Ip_10_0_2_2 == <<"1", "0", ".", "0", ".", "2", ".", "2">>

DotPositions(t) == {i \in 1..Len(t) : t[i] = "."}

\* [[ $X =~ ^[0-9]{1,3}\.[0-9]{1,3}\.[0-9]{1,3}\.[0-9]{1,3}$ ]]
IsIpFormat(t) ==
  LET dots == DotPositions(t)
      ends == dots \cup {Len(t) + 1}
  IN /\ Cardinality(dots) = 3
     /\ \A i \in (1..Len(t)) \ dots : t[i] \in Digits
     /\ \A i \in dots \cup {0} :
          LET nxt == CHOOSE j \in ends :
                       j > i /\ \A k \in ends : k > i => j <= k
          IN (nxt - i - 1) \in 1..3

\* grep patterns; "?" stands for the regular expression's unescaped dot
Pat127 == <<"1", "2", "7", "?", "0", "?", "0", "?", "1">>
Pat172 == <<"1", "7", "2", ".">>
Pat169 == <<"1", "6", "9", ".", "2", "5", "4", ".">>

MatchAt(t, i, pat) ==
  /\ i + Len(pat) - 1 <= Len(t)
  /\ \A k \in 1..Len(pat) : pat[k] = "?" \/ t[i + k - 1] = pat[k]

Contains(t, pat) == \E i \in 1..Len(t) : MatchAt(t, i, pat)

\* a line of output is its sequence of blank-separated fields
LineContains(line, pat) == \E f \in 1..Len(line) : Contains(line[f], pat)

\* grep "inet ": the word inet followed by a blank
HasInet(line) == \E f \in 1..(Len(line) - 1) : line[f] = <<"inet">>

\* awk '{print $2}'
SecondField(line) == IF Len(line) >= 2 THEN line[2] ELSE <<>>

\* ifconfig | grep "inet " | grep -v ... | awk '{print $2}' | head -1
IfconfigInet(lines, excluded) ==
  LET keep(l) == HasInet(l) /\ \A p \in excluded : ~LineContains(l, p)
      kept == SelectSeq(lines, keep)
  IN IF kept = <<>> THEN <<>> ELSE SecondField(kept[1])

\* $(...): the lines written to stdout, joined, trailing newlines removed
RECURSIVE Capture(_)
Capture(lines) ==
  IF lines = <<>> THEN <<>>
  ELSE IF Len(lines) = 1 THEN lines[1]
  ELSE lines[1] \o <<"\n">> \o Capture(Tail(lines))

DetectResult(rc, lines) == [rc |-> rc, out |-> Capture(lines)]

\* the first candidate that passes the format test, as a sequence
FirstValid(cands) ==
  LET ok == SelectSeq(cands, IsIpFormat)
  IN IF ok = <<>> THEN <<>> ELSE <<ok[1]>>

\* dev-start.sh: ifconfig, then ip route get, then hostname -I; the progress
\* messages go to stdout like the address itself
detect_network_ip(env) ==
  LET hello == <<"Detecting network IP address...">>
      found == FirstValid(<<IfconfigInet(env.ifconfig, {Pat127}),
                            env.ipSrc, env.hostnameI>>)
  IN IF found # <<>>
       THEN DetectResult(0, <<hello,
                              <<"Detected IP via: ">> \o found[1] \o <<"NC">>,
                              found[1]>>)
       ELSE DetectResult(1, <<hello,
                              <<"Could not automatically detect IP address">>,
                              <<"Please run this script with your IP">>>>)

\* the host-side script: macOS ifconfig, Linux ip route get, then ifconfig;
\* messages go to stderr
detect_host_ip_hostside(env) ==
  LET found ==
        FirstValid(
          (IF env.ostype = "darwin"
             THEN <<IfconfigInet(env.ifconfig, {Pat127, Pat172})>> ELSE <<>>)
          \o (IF env.ostype = "linux-gnu" THEN <<env.ipSrc>> ELSE <<>>)
          \o <<IfconfigInet(env.ifconfig, {Pat127, Pat172, Pat169})>>)
  IN IF found # <<>> THEN DetectResult(0, found) ELSE DetectResult(1, <<>>)

\* start-dev.sh: Windows (ipconfig.exe, PowerShell, WSL gateway), macOS,
\* Linux, generic ifconfig, hostname -I; messages go to stderr
detect_host_ip_team(env) ==
  LET windows == env.ostype \in {"msys", "cygwin"} \/ env.wsl
      found ==
        FirstValid(
          (IF windows
             THEN <<env.winIpconfig, env.winPowershell>>
                  \o (IF env.wsl THEN <<env.wslGateway>> ELSE <<>>)
             ELSE <<>>)
          \o (IF env.ostype = "darwin"
                THEN <<IfconfigInet(env.ifconfig, {Pat127, Pat172})>> ELSE <<>>)
          \o (IF env.ostype = "linux-gnu" THEN <<env.ipSrc>> ELSE <<>>)
          \o <<IfconfigInet(env.ifconfig, {Pat127, Pat172, Pat169}),
               env.hostnameI>>)
  IN IF found # <<>> THEN DetectResult(0, found) ELSE DetectResult(1, <<>>)

StartScripts == {"dev-start.sh", "part_001", "start-dev.sh"}

Detect(script, env) ==
  CASE script = "dev-start.sh" -> detect_network_ip(env)
    [] script = "part_001" -> detect_host_ip_hostside(env)
    [] script = "start-dev.sh" -> detect_host_ip_team(env)

\* the first arguments start-dev.sh answers with its usage text
HelpWords == {<<"help">>, <<"-h">>, <<"--help">>}

\* ---- the machines the scripts are run on.  A tool that is missing or
\* fails prints nothing, so its field is the empty string.
LoopbackLine == <<<<"inet">>, Ip_127_0_0_1, <<"netmask">>>>
Inet6Line == <<<<"inet6">>, <<"fe80::1">>>>
EtherLine == <<<<"ether">>, <<"aa:bb:cc">>>>

NoToolsEnv ==
  [ostype |-> "freebsd", wsl |-> FALSE, ifconfig |-> <<>>, ipSrc |-> <<>>,
   hostnameI |-> <<>>, winIpconfig |-> <<>>, winPowershell |-> <<>>,
   wslGateway |-> <<>>, dockerOk |-> TRUE]

MacEnv ==
  [NoToolsEnv EXCEPT
     !.ostype = "darwin",
     !.ifconfig = <<LoopbackLine, Inet6Line, EtherLine,
                    <<<<"inet">>, Ip_192_168_1_22, <<"netmask">>>>>>]

LinuxEnv ==
  [NoToolsEnv EXCEPT
     !.ostype = "linux-gnu",
     !.ifconfig = <<<<<<"inet">>, Ip_172_17_0_1, <<"netmask">>>>,
                    LoopbackLine,
                    <<<<"inet">>, Ip_10_0_0_5, <<"netmask">>>>>>,
     !.ipSrc = Ip_10_0_0_5,
     !.hostnameI = Ip_10_0_0_5]

\* net-tools 1.x prints "inet addr:10.0.0.5  Bcast:..."
OldLinuxEnv ==
  [NoToolsEnv EXCEPT
     !.ostype = "linux-gnu",
     !.ifconfig = <<<<<<"inet">>, <<"addr:">> \o Ip_127_0_0_1>>,
                    <<<<"inet">>, <<"addr:">> \o Ip_10_0_0_5>>>>,
     !.hostnameI = Ip_10_0_0_5]

WindowsEnv ==
  [NoToolsEnv EXCEPT !.ostype = "msys", !.winPowershell = Ip_192_168_1_22]

WslEnv ==
  [NoToolsEnv EXCEPT !.ostype = "linux-gnu", !.wsl = TRUE,
                     !.wslGateway = Ip_172_17_0_1]

StartEnvs ==
  { [env EXCEPT !.dockerOk = d] :
      env \in {NoToolsEnv, MacEnv, LinuxEnv, OldLinuxEnv, WindowsEnv, WslEnv},
      d \in BOOLEAN }

StartArgs ==
  { <<>>,
    <<Ip_192_168_1_22>>,
    <<Ip_192_168_1_22, Ip_10_0_0_5>>,
    <<<<"help">>>>,
    <<<<"--help">>, Ip_10_0_0_5>>,
    <<<<>>>>,
    <<<<"localhost">>>>,
    <<<<"1", ".", "2", ".", "3">>>>,
    <<<<"1", "2", "3", "4", ".", "1", ".", "1", ".", "1">>>>,
    <<Ip_10_0_0_5 \o <<"\n", "x">>>>,
    <<<<"addr:">> \o Ip_10_0_0_5>> }

startRest == <<serverVars, clientVars, screenVars, composedVars, mapVars>>

\* the script ends with the given status
ShExit(status) ==
  /\ shPc' = "exited"
  /\ shStatus' = status

\* a script is started from the shell
ShLaunch(script, args, env) ==
  /\ shPc = "shell"
  /\ shScript' = script
  /\ shArgs' = args
  /\ shEnv' = env
  /\ shPc' = "start"
  /\ UNCHANGED <<shIp, shStatus, shHostname, shDetectRan, shProbes, shTry,
                 shDetectRc, startRest>>

\* the argument handling: start-dev.sh first matches $1 against its help
\* words; with exactly one argument it is the IP, otherwise detection runs
ShArguments ==
  /\ shPc = "start"
  /\ shScript \in StartScripts
  /\ IF shScript = "start-dev.sh" /\ shArgs # <<>> /\ shArgs[1] \in HelpWords
       THEN ShExit(0) /\ UNCHANGED shIp
     ELSE IF Len(shArgs) = 1
       THEN /\ shIp' = shArgs[1]
            /\ shPc' = "validate"
            /\ UNCHANGED shStatus
     ELSE /\ shPc' = "detect"
          /\ UNCHANGED <<shIp, shStatus>>
  /\ UNCHANGED <<shScript, shArgs, shEnv, shHostname, shDetectRan, shProbes,
                 shTry, shDetectRc, startRest>>

\* X=$(detect...); if [ $? -ne 0 ]; then exit 1
ShDetect ==
  /\ shPc = "detect"
  /\ shDetectRan' = TRUE
  /\ LET d == Detect(shScript, shEnv)
     IN /\ shIp' = d.out
        /\ IF d.rc # 0 THEN ShExit(1)
           ELSE shPc' = "validate" /\ UNCHANGED shStatus
  /\ UNCHANGED <<shScript, shArgs, shEnv, shHostname, shProbes, shTry,
                 shDetectRc, startRest>>

\* (mutant) the script goes on whatever the value looks like
ShValidate_Skip ==
  /\ shPc = "validate"
  /\ shPc' = "ready"
  /\ UNCHANGED <<shScript, shArgs, shEnv, shIp, shStatus, shHostname,
                 shDetectRan, shProbes, shTry, shDetectRc, startRest>>

\* Validate IP format
ShValidate ==
  /\ shPc = "validate"
  /\ IF IsIpFormat(shIp) THEN shPc' = "ready" /\ UNCHANGED shStatus
     ELSE ShExit(1)
  /\ UNCHANGED <<shScript, shArgs, shEnv, shIp, shHostname, shDetectRan,
                 shProbes, shTry, shDetectRc, startRest>>

\* the rest of the script: the two Docker scripts end with status 1 when
\* Docker or the container is not available; otherwise
\* REACT_NATIVE_PACKAGER_HOSTNAME is exported and Expo is started
ShStartExpo ==
  /\ shPc = "ready"
  /\ IF shScript # "dev-start.sh" /\ ~shEnv.dockerOk
       THEN ShExit(1) /\ UNCHANGED shHostname
       ELSE /\ shHostname' = shIp
            /\ shPc' = "expo"
            /\ UNCHANGED shStatus
  /\ UNCHANGED <<shScript, shArgs, shEnv, shIp, shDetectRan, shProbes, shTry,
                 shDetectRc, startRest>>

NextStart ==
  \/ \E script \in StartScripts, args \in StartArgs, env \in StartEnvs :
       ShLaunch(script, args, env)
  \/ ShArguments
  \/ ShDetect
  \/ ShValidate
  \/ ShStartExpo

InitStartSpec == InitIdleServer /\ InitClient /\ InitScreen /\ InitOther

SpecStart == InitStartSpec /\ [][NextStart]_vars

\* ------------------------------------- dev-helper.sh: network configuration
\* (the second script of the file, from line 204)
NoHostsEntry == <<"no host.docker.internal line">>

\* for test_ip in "192.168.65.2" "192.168.1.1" "10.0.2.2"
CommonIps == <<Ip_192_168_65_2, Ip_192_168_1_1, Ip_10_0_2_2>>

NcModes == {<<>>, <<"start">>, <<"detect-ip">>, <<"help">>, <<"status">>}

\* the container the script runs in: the output of the ip route pipeline,
\* the first field of the host.docker.internal line of /etc/hosts, the
\* addresses whose :3000/health answers curl, and the inherited variables
\* REMAP_HOST_IP and HOST_IP
NcEnvs ==
  [gateway : {<<>>, Ip_172_17_0_1},
   hosts : {NoHostsEntry, Ip_192_168_1_22, <<"#">>},
   reachable : SUBSET {Ip_172_17_0_1, Ip_192_168_1_22, Ip_192_168_65_2,
                       Ip_192_168_1_1, Ip_10_0_2_2},
   remap : {<<>>, Ip_192_168_1_50, <<"my-laptop">>},
   hostIp : {<<>>, Ip_10_0_0_5}]

\* timeout N curl -s http://$1:3000/health
Curl(env, ip) == ip \in env.reachable

\* the command of the run: ${1:-start}
NcCommand == IF shArgs = <<>> THEN "start" ELSE shArgs[1]

\* the script is run; HOST_IP starts as the environment gives it
NcLaunch(args, env) ==
  /\ shPc = "shell"
  /\ shScript' = "dev-helper.sh"
  /\ shArgs' = args
  /\ shEnv' = env
  /\ shIp' = env.hostIp
  /\ shPc' = "start"
  /\ UNCHANGED <<shStatus, shHostname, shDetectRan, shProbes, shTry,
                 shDetectRc, startRest>>

\* show_manual_configuration_help: what it leaves in HOST_IP
ManualHostIp(env, hostIp) == IF env.remap # <<>> THEN env.remap ELSE hostIp

\* case "${1:-start}": start and detect-ip call detect_host_ip, help shows
\* the manual instructions, anything else prints the usage
NcDispatch ==
  /\ shPc = "start"
  /\ shScript = "dev-helper.sh"
  /\ IF NcCommand \in {"start", "detect-ip"}
       THEN /\ shPc' = "gateway"
            /\ shDetectRan' = TRUE
            /\ UNCHANGED <<shIp, shStatus>>
     ELSE IF NcCommand \in {"help", "troubleshoot"}
       THEN /\ shIp' = ManualHostIp(shEnv, shIp)
            /\ ShExit(0)
            /\ UNCHANGED shDetectRan
     ELSE ShExit(0) /\ UNCHANGED <<shIp, shDetectRan>>
  /\ UNCHANGED <<shScript, shArgs, shEnv, shHostname, shProbes, shTry,
                 shDetectRc, startRest>>

\* detect_host_ip, method 1: the default gateway, probed when well-formed
NcGateway ==
  /\ shPc = "gateway"
  /\ IF IsIpFormat(shEnv.gateway)
       THEN /\ shProbes' = Append(shProbes, shEnv.gateway)
            /\ IF Curl(shEnv, shEnv.gateway)
                 THEN shIp' = shEnv.gateway /\ shPc' = "final"
                 ELSE shPc' = "hosts" /\ UNCHANGED shIp
       ELSE /\ shPc' = "hosts"
            /\ UNCHANGED <<shIp, shProbes>>
  /\ UNCHANGED <<shScript, shArgs, shEnv, shStatus, shHostname, shDetectRan,
                 shTry, shDetectRc, startRest>>

\* try_alternative_detection, method 2: the /etc/hosts entry
NcHosts ==
  /\ shPc = "hosts"
  /\ IF shEnv.hosts # NoHostsEntry
       THEN /\ shProbes' = Append(shProbes, shEnv.hosts)
            /\ IF Curl(shEnv, shEnv.hosts)
                 THEN shIp' = shEnv.hosts /\ shPc' = "final" /\ UNCHANGED shTry
                 ELSE shPc' = "common" /\ shTry' = 1 /\ UNCHANGED shIp
       ELSE /\ shPc' = "common"
            /\ shTry' = 1
            /\ UNCHANGED <<shIp, shProbes>>
  /\ UNCHANGED <<shScript, shArgs, shEnv, shStatus, shHostname, shDetectRan,
                 shDetectRc, startRest>>

\* try_alternative_detection, method 3: one turn of the for loop
NcCommon ==
  /\ shPc = "common"
  /\ LET ip == CommonIps[shTry]
     IN /\ shProbes' = Append(shProbes, ip)
        /\ IF Curl(shEnv, ip)
             THEN shIp' = ip /\ shPc' = "final" /\ UNCHANGED shTry
           ELSE IF shTry < Len(CommonIps)
             THEN shTry' = shTry + 1 /\ UNCHANGED <<shIp, shPc>>
           ELSE shPc' = "final" /\ UNCHANGED <<shIp, shTry>>
  /\ UNCHANGED <<shScript, shArgs, shEnv, shStatus, shHostname, shDetectRan,
                 shDetectRc, startRest>>

\* detect_host_ip's final validation and its caller: a well-formed HOST_IP
\* returns 0; otherwise show_manual_configuration_help runs and detect_host_ip
\* returns 1 whatever the help returned.  main goes on to configure on 0 and
\* ends with status 1 otherwise; detect-ip prints HOST_IP and ends.
NcFinal ==
  /\ shPc = "final"
  /\ IF IsIpFormat(shIp)
       THEN /\ shDetectRc' = 0
            /\ UNCHANGED shIp
            /\ IF NcCommand = "start"
                 THEN shPc' = "configure" /\ UNCHANGED shStatus
                 ELSE ShExit(0)
       ELSE /\ shDetectRc' = 1
            /\ shIp' = ManualHostIp(shEnv, shIp)
            /\ IF NcCommand = "start" THEN ShExit(1) ELSE ShExit(0)
  /\ UNCHANGED <<shScript, shArgs, shEnv, shHostname, shDetectRan, shProbes,
                 shTry, startRest>>

\* configure_expo_networking, verify_network_setup, the connection guide,
\* then read -r waits for Enter
NcConfigure ==
  /\ shPc = "configure"
  /\ shHostname' = IF shIp # <<>> THEN shIp ELSE shHostname
  /\ shPc' = "enter"
  /\ UNCHANGED <<shScript, shArgs, shEnv, shIp, shStatus, shDetectRan,
                 shProbes, shTry, shDetectRc, startRest>>

\* Enter: start_expo_with_network_config ends the script when the frontend
\* directory is missing, and starts Expo otherwise
NcStartExpo(frontendDir) ==
  /\ shPc = "enter"
  /\ IF frontendDir THEN shPc' = "expo" /\ UNCHANGED shStatus
     ELSE ShExit(1)
  /\ UNCHANGED <<shScript, shArgs, shEnv, shIp, shHostname, shDetectRan,
                 shProbes, shTry, shDetectRc, startRest>>

NextNetConfig ==
  \/ \E args \in NcModes, env \in NcEnvs : NcLaunch(args, env)
  \/ NcDispatch
  \/ NcGateway
  \/ NcHosts
  \/ NcCommon
  \/ NcFinal
  \/ NcConfigure
  \/ \E frontendDir \in BOOLEAN : NcStartExpo(frontendDir)

SpecNetConfig == InitStartSpec /\ [][NextNetConfig]_vars

\* ================================================================ claims
Answered(id) == pc[id] = "done"

\* the response the request got (requests get at most one)
Resp(id) == responses[id][1]

HandledBy(id, route) == Answered(id) /\ Resp(id).by = route

\* a GET request the route's handler answered
GetHandledBy(id, route) == HandledBy(id, route) /\ req[id].method = "GET"

HasFields(body, names) == names \subseteq DOMAIN body

\* the fields of the client's BackendHealthResponse
BackendHealthResponseFields ==
  {"status", "timestamp", "environment", "database", "uptime"}

BackendHealthDatabaseFields == {"connected", "current_time", "version"}

\* C1: a GET /health request whose query succeeded is answered 200 with
\* status "healthy" and database.connected true, one whose query failed is
\* answered 503 with status "unhealthy", and the route gives no other status.
C1_HealthStatus ==
  \A id \in Ids :
    GetHandledBy(id, "health") =>
      /\ Resp(id).status \in {200, 503}
      /\ queryOutcome[id] = "ok" =>
           /\ Resp(id).status = 200
           /\ Resp(id).body.status = "healthy"
           /\ Resp(id).body.database.connected = TRUE
      /\ queryOutcome[id] = "failed" =>
           /\ Resp(id).status = 503
           /\ Resp(id).body.status = "unhealthy"

C1_Witness ==
  \E i, j \in Ids :
    /\ GetHandledBy(i, "health") /\ queryOutcome[i] = "ok"
    /\ GetHandledBy(j, "health") /\ queryOutcome[j] = "failed"

\* C2 as stated: every answer of GET /api/memories has memories = [] and
\* count = 0, whatever the state of the database.
C2_AlwaysEmptyList ==
  \A id \in Ids :
    GetHandledBy(id, "memories") =>
      /\ HasFields(Resp(id).body, {"memories", "count"})
      /\ Resp(id).body.memories = <<>>
      /\ Resp(id).body.count = 0

\* C2 amended: GET /api/memories answers with memories = [] and count = 0
\* whenever its query succeeds; when the query fails it answers 500 with a
\* body that has neither field.
C2_EmptyListWhenQueryOk ==
  \A id \in Ids :
    GetHandledBy(id, "memories") =>
      /\ queryOutcome[id] = "ok" =>
           /\ HasFields(Resp(id).body, {"memories", "count"})
           /\ Resp(id).body.memories = <<>>
           /\ Resp(id).body.count = 0
      /\ queryOutcome[id] = "failed" =>
           /\ Resp(id).status = 500
           /\ DOMAIN Resp(id).body \cap {"memories", "count"} = {}

C2_Witness ==
  \E i, j \in Ids :
    /\ GetHandledBy(i, "memories") /\ queryOutcome[i] = "ok"
    /\ GetHandledBy(j, "memories") /\ queryOutcome[j] = "failed"

IsNotFoundBody(id) ==
  /\ HasFields(Resp(id).body, {"available_endpoints", "message"})
  /\ Resp(id).body.available_endpoints = <<"/health", "/api", "/api/memories">>
  /\ Resp(id).body.message =
       <<"The endpoint", req[id].method, req[id].url, "does not exist">>

IsNotFoundAnswer(id) == Resp(id).status = 404 /\ IsNotFoundBody(id)

\* the request is literally one of GET /health, GET /api, GET /api/memories
IsListedRoute(r) ==
  r.method = "GET" /\ r.url \in {UrlHealth, UrlApi, UrlMemories}

\* C3 as stated: every request that is none of GET /health, GET /api and
\* GET /api/memories is answered 404 with the three endpoints and a message
\* naming its method and URL.
C3_UnlistedIs404 ==
  \A id \in Ids :
    (Answered(id) /\ ~IsListedRoute(req[id])) => IsNotFoundAnswer(id)

\* the request reaches the '*' handler: cors does not answer it, its body
\* parses, no route takes it (HEAD counts as GET, case and a trailing slash
\* are ignored) and its path decodes
ReachesNotFound(r) ==
  /\ r.method # "OPTIONS"
  /\ r.body # "malformed"
  /\ ~(/\ r.method \in {"GET", "HEAD"}
       /\ Lower(r.url.segs) \in {<<"health">>, <<"api">>, <<"api", "memories">>})
  /\ r.url.segs # <<"%E0%A4%A">>

\* C3 amended: every request that reaches the '*' handler is answered 404,
\* with a body (sent unless the method is HEAD) that lists the three endpoints
\* and names the request's method and URL.
C3_NotFoundHandler ==
  \A id \in Ids :
    (Answered(id) /\ ReachesNotFound(req[id])) =>
      /\ Resp(id).status = 404
      /\ req[id].method # "HEAD" => IsNotFoundBody(id)

C3_Witness ==
  \E id \in Ids :
    /\ Answered(id)
    /\ req[id] = Request("POST", UrlMemories, "none")
    /\ Resp(id).status = 404

\* a failure happened while the server handled the request: its query was
\* rejected, its body could not be parsed, or its path could not be decoded
RequestFailed(id) ==
  \/ queryOutcome[id] = "failed"
  \/ req[id].method # "OPTIONS" /\ req[id].body = "malformed"
  \/ Resp(id).by = "finalhandler"

\* C4 as stated: every failure is answered with 503 or 500 and a JSON body
\* with an error field (sent unless the method is HEAD), and every failed
\* request gets its response.
C4_FailuresAre503Or500 ==
  \A id \in Ids :
    (Answered(id) /\ RequestFailed(id)) =>
      /\ Len(responses[id]) = 1
      /\ Resp(id).status \in {500, 503}
      /\ req[id].method # "HEAD" => HasFields(Resp(id).body, {"error"})

\* C5: a GET /health request runs its query once and is answered once; the
\* query is never run again after it failed.
C5_OneQueryOneResponse ==
  \A id \in Ids :
    /\ pc[id] = "healthQuery" => queries[id] = 1 /\ responses[id] = <<>>
    /\ HandledBy(id, "health") => queries[id] = 1 /\ Len(responses[id]) = 1

C5_Witness ==
  \E id \in Ids :
    /\ HandledBy(id, "health")
    /\ queryOutcome[id] = "failed"
    /\ Resp(id).status = 503
    /\ dbUp

\* C6 as stated: every /health body, healthy or unhealthy, has the fields of
\* BackendHealthResponse.
C6_HealthBodyContract ==
  \A id \in Ids :
    GetHandledBy(id, "health") =>
      /\ HasFields(Resp(id).body, BackendHealthResponseFields)
      /\ HasFields(Resp(id).body.database, BackendHealthDatabaseFields)

\* C7: the screen's healthChecks, locationStatus, deviceInfo and lastRefresh
\* always come from one and the same run, and the run they come from has no
\* check pending: they are the statuses its five checks settled with.
C7_WaitForAllThenRender ==
  /\ healthChecks.run = lastRefresh
  /\ locationStatus.run = lastRefresh
  /\ deviceInfo.run = lastRefresh
  /\ \A r \in Runs :
       lastRefresh = r =>
         /\ runPending[r] = {}
         /\ healthChecks.backend = runResult[r]["backend"]
         /\ healthChecks.database = runResult[r]["database"]
         /\ healthChecks.api = runResult[r]["api"]
         /\ locationStatus.status = runResult[r]["location"]
         /\ deviceInfo.status = runResult[r]["device"]

\* two runs overlap: the results of the later one are on the screen while a
\* check of the earlier one is still pending
C7_Witness ==
  \E r, q \in Runs :
    /\ lastRefresh = r
    /\ q < r
    /\ runPending[q] # {}

\* C8 as stated (its exit codes): the process exits with code 0 only when the
\* HTTP server has closed and the pool has ended, and with code 1 only by the
\* timer of a shutdown.
C8_ExitCodes ==
  /\ exitCode = 0 => serverState = "closed" /\ poolEnded
  /\ exitCode = 1 => signals > 0
  /\ exitCode \in {NoExit, 0, 1}

\* C9 as stated: the pool is ended only after the HTTP server has closed, and
\* process.exit(0) is called only when no pool.end() is still awaited, also
\* after a second shutdown signal.
C9_ShutdownOrder ==
  /\ poolEnding => serverState = "closed"
  /\ exitCode = 0 => \A k \in Invocations : cbState[k] # "awaitEnd"


\* C10 as stated: makeRequest settles within its timeout: once more than the
\* timeout has passed, the call has settled, and a call the timer ended was
\* rejected with the timeout message and gave its check the status 'error'.
C10_SettlesWithinTimeout ==
  /\ mrElapsed > DefaultTimeout => mrPc \in {"resolved", "rejected"}
  /\ mrAborted =>
       /\ mrError = "Request timeout - check your network connection"
       /\ checkResult.status = "error"

\* C11 as stated: a fetch that failed on the network is tried again: the
\* check reports a network error only after at least two fetch calls.
C11_RetriesBeforeError ==
  (/\ mrPc = "rejected"
   /\ mrError = "Network error - is the backend server running?")
    => mrAttempts >= 2

\* C12: every GET /api request is answered at once with status 200 and the
\* static body (message, version, description, endpoints, documentation),
\* without a database query, whether PostgreSQL is up or down.
C12_ApiStatic ==
  \A id \in Ids :
    req[id] = Request("GET", UrlApi, "none") =>
      /\ Answered(id)
      /\ queries[id] = 0
      /\ queryOutcome[id] = "none"
      /\ Resp(id).status = 200
      /\ DOMAIN Resp(id).body =
           {"message", "version", "description", "endpoints", "documentation"}
      /\ \A j \in Ids :
           req[j] = Request("GET", UrlApi, "none") => Resp(j) = Resp(id)

\* GET /api was answered twice while PostgreSQL is down
C12_Witness ==
  /\ ~dbUp
  /\ \E i, j \in Ids :
       /\ i # j
       /\ req[i] = Request("GET", UrlApi, "none")
       /\ req[j] = Request("GET", UrlApi, "none")
       /\ Answered(i) /\ Answered(j)

\* the response makeRequest resolved with is a healthy one
HealthyData(resp) ==
  /\ {"status", "database"} \subseteq DOMAIN resp.data
  /\ resp.data.status = "healthy"
  /\ resp.data.database.connected = TRUE

\* C17: checkBackendHealth always returns a result: 'healthy' exactly when
\* the response is 2xx with status 'healthy' and database.connected true,
\* 'warning' when the 2xx body has status and database but is not healthy,
\* 'error' when makeRequest rejected (non-2xx, network failure, timeout,
\* unparsable body) or the 2xx body lacks status or database.
C17_BackendHealthStatus ==
  (check = "backend" /\ mrPc \in {"resolved", "rejected"}) =>
    /\ checkResult.status \in {"healthy", "warning", "error"}
    /\ checkResult.name = "Backend API Connection"
    /\ checkResult.status = "healthy" <=>
         (mrPc = "resolved" /\ ResponseOk(mrResponse) /\ HealthyData(mrResponse))
    /\ checkResult.status = "warning" <=>
         /\ mrPc = "resolved"
         /\ {"status", "database"} \subseteq DOMAIN mrResponse.data
         /\ ~HealthyData(mrResponse)
    /\ mrPc = "rejected" => checkResult.status = "error"
    /\ mrPc = "resolved" => ResponseOk(mrResponse)

\* a 2xx body with status 'healthy' and a disconnected database gave 'warning'
C17_Witness ==
  /\ check = "backend"
  /\ mrPc = "resolved"
  /\ mrResponse.data = DisconnectedBody
  /\ checkResult.status = "warning"

\* C18: against this backend checkBackendHealth never returns 'warning';
\* a check whose database query failed ends in 'error', the API check ends
\* in 'healthy', so a run whose queries all met a database that was down
\* yields backend = error, database = error, api = healthy.
C18_NoWarningAgainstBackend ==
  /\ compResult["backend"].status # "warning"
  /\ \A c \in CompChecks :
       compPc[c] = "settled" =>
         /\ compResult[c].name = CheckName(c)
         /\ compOutcome[c] = "failed" => compResult[c].status = "error"
         /\ c = "api" => compResult[c].status = "healthy"
  /\ \A c \in {"backend", "database"} :
       compOutcome[c] = "failed" => compResp[c].status \in {503, 500}
  /\ compOutcome["backend"] = "failed" => compResp["backend"].status = 503

\* one run settled whose two queries met a database that was down
C18_Witness ==
  /\ \A c \in CompChecks : compPc[c] = "settled"
  /\ compOutcome["backend"] = "failed"
  /\ compOutcome["database"] = "failed"
  /\ compResult["backend"].status = "error"
  /\ compResult["database"].status = "error"
  /\ compResult["api"].status = "healthy"

\* the pins of the list
PinsOf(pins) == {pins[i] : i \in 1..Len(pins)}

\* C16 as stated: a pin the Create Memory action prepended stays in
\* memoryPins in every later state.
C16_CreatedPinStays == mapCreated \subseteq PinsOf(memoryPins)

\* the address dev-start.sh's ifconfig pipeline prints
IfconfigAddress == IfconfigInet(shEnv.ifconfig, {Pat127})

\* C13 as stated: dev-start.sh run without arguments where ifconfig reports a
\* non-loopback IPv4 address sets NETWORK_IP to exactly that address, passes
\* the format validation, exports it and starts Expo.
C13_DetectsAndStarts ==
  (/\ shScript = "dev-start.sh"
   /\ shArgs = <<>>
   /\ IsIpFormat(IfconfigAddress)
   /\ shPc \in {"validate", "ready", "expo", "exited"})
    => /\ shIp = IfconfigAddress
       /\ shPc # "exited"
       /\ shPc = "expo" => shHostname = IfconfigAddress

\* every probe of the run failed
AllProbesFailed == \A i \in 1..Len(shProbes) : ~Curl(shEnv, shProbes[i])

\* C14 as stated: when every automatic detection method failed and
\* REMAP_HOST_IP is set, HOST_IP becomes REMAP_HOST_IP, detect_host_ip counts
\* as successful and the start command does not end with status 1.
C14_ManualOverrideStarts ==
  (/\ shScript = "dev-helper.sh"
   /\ NcCommand = "start"
   /\ shEnv.remap # <<>>
   /\ shDetectRc # NoExit
   /\ AllProbesFailed)
    => /\ shIp = shEnv.remap
       /\ shDetectRc = 0
       /\ ~(shPc = "exited" /\ shStatus = 1)

\* start-dev.sh was called for its usage text
HelpCall ==
  shScript = "start-dev.sh" /\ shArgs # <<>> /\ shArgs[1] \in HelpWords

\* C15 as stated: Expo is started only with a well-formed IP, a value that
\* is not well-formed ends the script with status 1, and a single argument
\* is used as the IP without detection.
C15_AsStated ==
  shScript \in StartScripts =>
    /\ shPc = "expo" => IsIpFormat(shHostname)
    /\ (shPc = "exited" /\ Len(shArgs) = 1 /\ ~IsIpFormat(shArgs[1]))
         => shStatus = 1
    /\ (shPc = "exited" /\ shDetectRan /\ ~IsIpFormat(shIp)) => shStatus = 1
    /\ (Len(shArgs) = 1 /\ shPc \notin {"shell", "start"})
         => (shIp = shArgs[1] /\ ~shDetectRan)

\* C15: the three scripts start Expo only with a well-formed IP; a value
\* that is not well-formed, given or detected, ends the script with status 1
\* first; a single argument is used as the IP without detection; except that
\* start-dev.sh called with help, -h or --help first prints its usage and
\* ends with status 0 without an IP, detection or Expo.
C15_ValidatedIpOnly ==
  shScript \in StartScripts =>
    /\ shPc \in {"ready", "expo"} => IsIpFormat(shIp)
    /\ shPc = "expo" => shHostname = shIp
    /\ shPc # "expo" => shHostname = <<>>
    /\ (shPc = "exited" /\ ~HelpCall /\ ~IsIpFormat(shIp)) => shStatus = 1
    /\ (Len(shArgs) = 1 /\ ~HelpCall /\ shPc \notin {"shell", "start"})
         => (shIp = shArgs[1] /\ ~shDetectRan)
    /\ (HelpCall /\ shPc \notin {"shell", "start"})
         => (shPc = "exited" /\ shStatus = 0 /\ ~shDetectRan /\ shIp = <<>>)

\* a single argument that is no IP ended the script with status 1, unused
\* by detection
C15_Witness ==
  /\ shScript \in StartScripts
  /\ Len(shArgs) = 1
  /\ ~IsIpFormat(shArgs[1])
  /\ shIp = shArgs[1]
  /\ shPc = "exited"
  /\ shStatus = 1
  /\ ~shDetectRan

\* the candidates of detect_host_ip, in the order it probes them
CandidateOrder(env) ==
  (IF IsIpFormat(env.gateway) THEN <<env.gateway>> ELSE <<>>)
  \o (IF env.hosts # NoHostsEntry THEN <<env.hosts>> ELSE <<>>)
  \o CommonIps

\* C19 as stated: detect_host_ip returns success only with HOST_IP holding
\* a candidate whose probe succeeded, the candidates having been probed in
\* order (gateway, /etc/hosts entry, 192.168.65.2, 192.168.1.1, 10.0.2.2)
\* up to the first that answers.
C19_AcceptsOnlyProbed ==
  (shScript = "dev-helper.sh" /\ shDetectRc = 0) =>
    /\ shProbes # <<>>
    /\ shProbes = SubSeq(CandidateOrder(shEnv), 1, Len(shProbes))
    /\ shIp = shProbes[Len(shProbes)]
    /\ Curl(shEnv, shIp)
    /\ \A i \in 1..(Len(shProbes) - 1) : ~Curl(shEnv, shProbes[i])

====
